---- MODULE Spec2Model ----
(***************************************************************************)
(* Model of the julia-set renderer: the escape-time evaluator              *)
(* (applications_until), the sequential renderer (sequential_image) and    *)
(* the row-chunked parallel renderer (parallel_image) of src/src/lib.rs.   *)
(*                                                                         *)
(* Complex64 values are modelled on the lattice of complex numbers with    *)
(* integer components.  Every step function of the model maps the lattice  *)
(* to itself and every value the evaluator meets is far below 2^53, so the *)
(* f64 arithmetic of the program is exact on these values.  Image sizes    *)
(* are a few pixels, so the u32 products width * height, y * width and     *)
(* (y + 1) * width are the exact products and the casts between usize and  *)
(* u32 keep the value.                                                     *)
(*                                                                         *)
(* Spec and FairSpec are a call of parallel_image followed by a call of    *)
(* sequential_image on the same inputs; SpecEval and FairSpecEval are a    *)
(* call of applications_until taken one pass of its loop at a time.        *)
(*                                                                         *)
(* SpecInterp is a call of interpolate_stretch or interpolate_rectilinear  *)
(* and a call of the closure it returns, the f64 values being exact        *)
(* rationals with NaN and the infinities.  SpecIter is duplicate_first on  *)
(* a vector and the calls of next on it (src/src/iter.rs); SpecLerp is     *)
(* lerp_iter or lerp_iter_closed and the calls of next (src/src/lerp.rs).  *)
(* SpecWide is parallel_image on images whose u32 products can overflow,   *)
(* with the lengths and indexes only.                                      *)
(***************************************************************************)
EXTENDS Integers, Sequences, FiniteSets, TLC

\* ------------------------------------------------------------------ state

VARIABLES
    width,          \* image width in pixels
    height,         \* image height in pixels
    function,       \* the step function of the render
    threshold,      \* the divergence threshold of the render
    row_n,          \* the shared row cursor (AtomicUsize)
    image_backend,  \* the shared output buffer (Vec<u8> behind the mutex)
    mutex,          \* the worker holding the buffer mutex, or None
    pc,             \* per worker: where the thread is
    y,              \* per worker: the row index last claimed
    row,            \* per worker: the thread-local scratch row
    result,         \* where the parallel_image call is
    seq_image,      \* the buffer sequential_image returned, or None
    claims,         \* history: the values the fetch_add claims returned
    writes,         \* history: how often each buffer cell was written
    initial,        \* evaluator: the initial value
    eval_function,  \* evaluator: the step function
    eval_threshold, \* evaluator: the threshold
    bound,          \* evaluator: the bound, a number or None
    value,          \* evaluator: the running value
    count,          \* evaluator: the running count
    calls,          \* history: how often the step function was called
    eval_pc,        \* evaluator: where the call is
    given,          \* mapper: the arguments its constructor was called with
    mapper,         \* mapper: the values the returned closure captured
    sample,         \* mapper: the last pixel mapped and its value, or None
    dupe_input,     \* DupeFirst: the items of the iterator it was built on
    dupe_first,     \* DupeFirst: the struct (iterator, previous), or None
    dupe_out,       \* history: what the calls of DupeFirst::next returned
    lerp_args,      \* lerp: the arguments the iterator was built with
    lerp_iterator,  \* lerp: the iterator returned (a LerpIterator, or a
                    \* Skip of a Chain of a LerpIterator and a Once), or None
    lerp_out,       \* history: what the calls of next returned
    wide            \* wide render: the state of the call (build, width,
                    \* height, len, row_n, y, idx, ended, result), or None

render_vars ==
    <<width, height, function, threshold, row_n, image_backend,
      mutex, pc, y, row, result, seq_image, claims, writes>>

eval_vars ==
    <<initial, eval_function, eval_threshold, bound, value, count, calls,
      eval_pc>>

interp_vars == <<given, mapper, sample>>

iter_vars == <<dupe_input, dupe_first, dupe_out>>

lerp_vars == <<lerp_args, lerp_iterator, lerp_out>>

wide_vars == <<wide>>

\* The variables of the models of the library functions and of the render of
\* a wide image.
unit_vars == <<interp_vars, iter_vars, lerp_vars, wide_vars>>

vars == <<render_vars, eval_vars, unit_vars>>

\* ------------------------------------------------------------------ bounds

MaxWidth == 2

MaxHeight == 3

MaxCoord == 2

MaxBound == 3

\* ------------------------------------------------- constants of the program

THREADS == 4

RenderBound == 255

\* usize::MAX, the bound used when none is given.  No count of the model
\* comes near it; it is written as 2^31 - 1, the largest integer TLC has.
USIZE_MAX == 2147483647

\* The number of values of a u8: `n as u8` is n modulo U8.
U8 == 256

\* Option<T>: None, or Some(x) holding x.
None == <<>>

Some(x) == <<x>>

unwrap(o) == o[1]

Workers == 1 .. THREADS

\* -------------------------------------------------------- complex numbers

Complex64(re, im) == [re |-> re, im |-> im]

norm_sqr(z) == z.re * z.re + z.im * z.im

mul(a, b) == Complex64(a.re * b.re - a.im * b.im, a.re * b.im + a.im * b.re)

add(a, b) == Complex64(a.re + b.re, a.im + b.im)

\* The step functions handed to the evaluator: z*z + c for three lattice
\* values of c, the identity map, and a translation.
Functions == {"sq_minus_one", "sq_plus_i", "sq", "identity", "translate"}

\* The step functions handed to the renderers; the last is the translation
\* made to panic when it is called on the origin.
RenderFunctions == {"sq_minus_one", "translate", "translate_or_panic"}

\* The value a call of the step function returns.
call(f, z) ==
    CASE f = "sq_minus_one"       -> add(mul(z, z), Complex64(-1, 0))
      [] f = "sq_plus_i"          -> add(mul(z, z), Complex64(0, 1))
      [] f = "sq"                 -> mul(z, z)
      [] f = "identity"           -> z
      [] f = "translate"          -> add(z, Complex64(1, 1))
      [] f = "translate_or_panic" -> add(z, Complex64(1, 1))

\* Whether a call of the step function panics instead of returning.
panics(f, z) == f = "translate_or_panic" /\ z = Complex64(0, 0)

Thresholds == {-2, 0, 2, 4}

RenderThresholds == {2, 4}

\* ------------------------------------------------------ applications_until

unwrap_or(o, d) == IF o = None THEN d ELSE unwrap(o)

\* The divergence test with <= for <.
within_threshold_inclusive(z, t) == norm_sqr(z) <= t * t

\* The divergence test of the loop: the squared magnitude against the
\* squared threshold.
within_threshold(z, t) == norm_sqr(z) < t * t

\* The loop condition with count <= bound for count < bound.
loop_condition_inclusive(z, n, t, b) ==
    /\ n <= unwrap_or(b, USIZE_MAX)
    /\ within_threshold(z, t)

\* The condition of the while loop.
loop_condition(z, n, t, b) ==
    /\ n < unwrap_or(b, USIZE_MAX)
    /\ within_threshold(z, t)

\* One pass of the while loop over the locals (value, count): the body when the
\* condition holds, and the locals as they are once the loop has been left.
\* A panic of the step function ends the loop by unwinding.
loop_pass(st, f, t, b) ==
    IF st.unwinding \/ ~loop_condition(st.value, st.count, t, b)
    THEN st
    ELSE IF panics(f, st.value)
    THEN [value |-> st.value, count |-> st.count + 1, unwinding |-> TRUE]
    ELSE [value |-> call(f, st.value), count |-> st.count + 1,
          unwinding |-> FALSE]

\* The locals after at most n passes, the passes taken in two halves.
RECURSIVE loop_passes(_, _, _, _, _)
loop_passes(st, n, f, t, b) ==
    IF n = 0 \/ st.unwinding \/ ~loop_condition(st.value, st.count, t, b)
    THEN st
    ELSE IF n = 1
    THEN loop_pass(st, f, t, b)
    ELSE loop_passes(loop_passes(st, n \div 2, f, t, b),
                     n - (n \div 2), f, t, b)

\* The locals when the loop ends: it is left after at most `bound` passes,
\* count being then the bound.
while_loop(init, f, t, b) ==
    loop_passes([value |-> init, count |-> 0, unwinding |-> FALSE],
                unwrap_or(b, USIZE_MAX), f, t, b)

\* The count the call returns.
applications_until(init, f, t, b) == while_loop(init, f, t, b).count

\* ------------------------------------------------------- the pixel of (x, y)

\* The coordinate mapper handed to the renderers: a closure from pixel
\* coordinates to a complex sample.
interpolate(x, yy) == Complex64(x - 1, yy - 1)

as_u8(n) == n % U8

\* applications_until(interpolate(x, y), function, threshold, Some(255)),
\* the call both renderers make for pixel (x, y), tabulated over the inputs
\* of the model.
pixels ==
    [f \in RenderFunctions, t \in RenderThresholds,
     x \in 0 .. MaxWidth, yy \in 0 .. MaxHeight |->
        while_loop(interpolate(x, yy), f, t, Some(RenderBound))]

\* The byte both renderers store for pixel (x, y): the count as u8.
pixel(x, yy, f, t) == as_u8(pixels[f, t, x, yy].count)

\* Whether the computation of pixel (x, y) panics.
pixel_panics(x, yy, f, t) == pixels[f, t, x, yy].unwinding

\* -------------------------------------------------------- sequential_image

\* ImageBuffer::from_fn: the pixel (x, y) is stored at index y * width + x.
sequential_image(w, h, f, t) ==
    [i \in 1 .. (w * h) |-> pixel((i - 1) % w, (i - 1) \div w, f, t)]

\* ---------------------------------------------------------- parallel_image

idx_start(yy, w) == yy * w

idx_end(yy, w) == (yy + 1) * w

\* The state of the coordinate mappers while none has been constructed.
InterpIdle ==
    /\ given = None
    /\ mapper = None
    /\ sample = None

\* The state of the DupeFirst adaptor while none has been constructed.
IterIdle ==
    /\ dupe_input = <<>>
    /\ dupe_first = None
    /\ dupe_out = <<>>

\* The state of the lerp iterators while none has been constructed.
LerpIdle ==
    /\ lerp_args = None
    /\ lerp_iterator = None
    /\ lerp_out = <<>>

\* The state of the render of a wide image while none is modelled.
WideIdle == wide = None

UnitIdle == InterpIdle /\ IterIdle /\ LerpIdle /\ WideIdle

\* The state of the evaluator while a render is modelled.
EvalIdle ==
    /\ initial = Complex64(0, 0)
    /\ eval_function = "identity"
    /\ eval_threshold = 0
    /\ bound = None
    /\ value = Complex64(0, 0)
    /\ count = 0
    /\ calls = 0
    /\ eval_pc = "idle"

\* The state when the worker threads have been spawned.
InitRender ==
    /\ width \in 0 .. MaxWidth
    /\ height \in 0 .. MaxHeight
    /\ function \in RenderFunctions
    /\ threshold \in RenderThresholds
    /\ row_n = 0
    /\ image_backend = [i \in 1 .. (width * height) |-> 0]
    /\ mutex = None
    /\ pc = [w \in Workers |-> "claim"]
    /\ y = [w \in Workers |-> 0]
    /\ row = [w \in Workers |-> <<>>]
    /\ result = "running"
    /\ seq_image = None
    /\ claims = <<>>
    /\ writes = [i \in 1 .. (width * height) |-> 0]

Init == InitRender /\ EvalIdle /\ UnitIdle

\* The claim taking the value of the cursor after the increment.
ClaimPostIncrement(w) ==
    /\ pc[w] = "claim"
    /\ row_n' = row_n + 1
    /\ y' = [y EXCEPT ![w] = row_n + 1]
    /\ claims' = Append(claims, row_n + 1)
    /\ pc' = [pc EXCEPT ![w] = IF row_n + 1 >= height THEN "done" ELSE "compute"]
    /\ UNCHANGED <<width, height, function, threshold,
                   image_backend, mutex, row, result, seq_image, writes>>
    /\ UNCHANGED <<eval_vars, unit_vars>>

\* The claim with `if y > height { break; }`.
ClaimBreakPastHeight(w) ==
    /\ pc[w] = "claim"
    /\ row_n' = row_n + 1
    /\ y' = [y EXCEPT ![w] = row_n]
    /\ claims' = Append(claims, row_n)
    /\ pc' = [pc EXCEPT ![w] = IF row_n > height THEN "done" ELSE "compute"]
    /\ UNCHANGED <<width, height, function, threshold,
                   image_backend, mutex, row, result, seq_image, writes>>
    /\ UNCHANGED <<eval_vars, unit_vars>>

\* let y = row_n.fetch_add(1, SeqCst) as u32; if y >= height { break; }
Claim(w) ==
    /\ pc[w] = "claim"
    /\ row_n' = row_n + 1
    /\ y' = [y EXCEPT ![w] = row_n]
    /\ claims' = Append(claims, row_n)
    /\ pc' = [pc EXCEPT ![w] = IF row_n >= height THEN "done" ELSE "compute"]
    /\ UNCHANGED <<width, height, function, threshold,
                   image_backend, mutex, row, result, seq_image, writes>>
    /\ UNCHANGED <<eval_vars, unit_vars>>

\* The row computed for x in 1..=width.
ComputeOffByOne(w) ==
    /\ pc[w] = "compute"
    /\ LET bad == {x \in 0 .. width - 1 :
                        pixel_panics(x, y[w], function, threshold)}
           pushed == IF bad = {} THEN width
                     ELSE CHOOSE x \in bad : \A x2 \in bad : x <= x2
       IN /\ row' = [row EXCEPT ![w] =
                        [i \in 1 .. pushed |->
                            pixel(i, y[w], function, threshold)]]
          /\ pc' = [pc EXCEPT ![w] = IF bad = {} THEN "lock" ELSE "panicked"]
    /\ UNCHANGED <<width, height, function, threshold, row_n,
                   image_backend, mutex, y, result, seq_image, claims, writes>>
    /\ UNCHANGED <<eval_vars, unit_vars>>

\* The row computed with the buffer locked before the pixel loop.
ComputeUnderLock(w) ==
    /\ pc[w] = "compute"
    /\ mutex = None
    /\ mutex' = Some(w)
    /\ LET bad == {x \in 0 .. width - 1 :
                        pixel_panics(x, y[w], function, threshold)}
           pushed == IF bad = {} THEN width
                     ELSE CHOOSE x \in bad : \A x2 \in bad : x <= x2
       IN /\ row' = [row EXCEPT ![w] =
                        [i \in 1 .. pushed |->
                            pixel(i - 1, y[w], function, threshold)]]
          /\ pc' = [pc EXCEPT ![w] = IF bad = {} THEN "copy" ELSE "panicked"]
    /\ UNCHANGED <<width, height, function, threshold, row_n,
                   image_backend, y, result, seq_image, claims, writes>>
    /\ UNCHANGED <<eval_vars, unit_vars>>

\* row.clear(); for x in 0..width { row.push(...) }.  The thread unwinds at
\* the pixel whose computation panics, the row filled up to that pixel.
Compute(w) ==
    /\ pc[w] = "compute"
    /\ LET bad == {x \in 0 .. width - 1 :
                        pixel_panics(x, y[w], function, threshold)}
           pushed == IF bad = {} THEN width
                     ELSE CHOOSE x \in bad : \A x2 \in bad : x <= x2
       IN /\ row' = [row EXCEPT ![w] =
                        [i \in 1 .. pushed |->
                            pixel(i - 1, y[w], function, threshold)]]
          /\ pc' = [pc EXCEPT ![w] = IF bad = {} THEN "lock" ELSE "panicked"]
    /\ UNCHANGED <<width, height, function, threshold, row_n,
                   image_backend, mutex, y, result, seq_image, claims, writes>>
    /\ UNCHANGED <<eval_vars, unit_vars>>

\* The lock taken without waiting for its holder.
LockNoWait(w) ==
    /\ pc[w] = "lock"
    /\ mutex' = Some(w)
    /\ pc' = [pc EXCEPT ![w] = "copy"]
    /\ UNCHANGED <<width, height, function, threshold, row_n,
                   image_backend, y, row, result, seq_image, claims, writes>>
    /\ UNCHANGED <<eval_vars, unit_vars>>

\* image_backend.lock().unwrap()
Lock(w) ==
    /\ pc[w] = "lock"
    /\ mutex = None
    /\ mutex' = Some(w)
    /\ pc' = [pc EXCEPT ![w] = "copy"]
    /\ UNCHANGED <<width, height, function, threshold, row_n,
                   image_backend, y, row, result, seq_image, claims, writes>>
    /\ UNCHANGED <<eval_vars, unit_vars>>

\* The copy that never releases the mutex.
CopyKeepLock(w) ==
    /\ pc[w] = "copy"
    /\ LET s == idx_start(y[w], width)
           e == idx_end(y[w], width)
       IN /\ image_backend' =
                [i \in 1 .. Len(image_backend) |->
                    IF s < i /\ i <= e THEN row[w][i - s]
                                       ELSE image_backend[i]]
          /\ writes' =
                [i \in 1 .. Len(writes) |->
                    IF s < i /\ i <= e THEN writes[i] + 1 ELSE writes[i]]
    /\ mutex' = mutex
    /\ pc' = [pc EXCEPT ![w] = "claim"]
    /\ UNCHANGED <<width, height, function, threshold, row_n,
                   y, row, result, seq_image, claims>>
    /\ UNCHANGED <<eval_vars, unit_vars>>

\* [idx_start..idx_end].clone_from_slice(&row); the guard is dropped at the
\* end of the statement.
Copy(w) ==
    /\ pc[w] = "copy"
    /\ LET s == idx_start(y[w], width)
           e == idx_end(y[w], width)
       IN /\ image_backend' =
                [i \in 1 .. Len(image_backend) |->
                    IF s < i /\ i <= e THEN row[w][i - s]
                                       ELSE image_backend[i]]
          /\ writes' =
                [i \in 1 .. Len(writes) |->
                    IF s < i /\ i <= e THEN writes[i] + 1 ELSE writes[i]]
    /\ mutex' = None
    /\ pc' = [pc EXCEPT ![w] = "claim"]
    /\ UNCHANGED <<width, height, function, threshold, row_n,
                   y, row, result, seq_image, claims>>
    /\ UNCHANGED <<eval_vars, unit_vars>>

\* The scope ending as soon as one thread has.
ScopeJoinAny ==
    /\ result = "running"
    /\ \E w \in Workers : pc[w] \in {"done", "panicked"}
    /\ result' = IF \E w \in Workers : pc[w] = "panicked"
                 THEN "panicked" ELSE "joined"
    /\ UNCHANGED <<width, height, function, threshold, row_n,
                   image_backend, mutex, pc, y, row, seq_image, claims, writes>>
    /\ UNCHANGED <<eval_vars, unit_vars>>

\* The scope dropping the panic of a thread.
ScopeJoinSwallow ==
    /\ result = "running"
    /\ \A w \in Workers : pc[w] \in {"done", "panicked"}
    /\ result' = "joined"
    /\ UNCHANGED <<width, height, function, threshold, row_n,
                   image_backend, mutex, pc, y, row, seq_image, claims, writes>>
    /\ UNCHANGED <<eval_vars, unit_vars>>

\* The end of crossbeam::scope: every spawned thread is joined, and the
\* panic of a thread is raised again in the caller.
ScopeJoin ==
    /\ result = "running"
    /\ \A w \in Workers : pc[w] \in {"done", "panicked"}
    /\ result' = IF \E w \in Workers : pc[w] = "panicked"
                 THEN "panicked" ELSE "joined"
    /\ UNCHANGED <<width, height, function, threshold, row_n,
                   image_backend, mutex, pc, y, row, seq_image, claims, writes>>
    /\ UNCHANGED <<eval_vars, unit_vars>>

\* Arc::try_unwrap(..).unwrap().into_inner().unwrap() and
\* ImageBuffer::from_raw(width, height, ..).unwrap()
Return ==
    /\ result = "joined"
    /\ result' = IF Len(image_backend) >= width * height
                 THEN "returned" ELSE "panicked"
    /\ UNCHANGED <<width, height, function, threshold, row_n,
                   image_backend, mutex, pc, y, row, seq_image, claims, writes>>
    /\ UNCHANGED <<eval_vars, unit_vars>>

\* The caller renders the same image with sequential_image.
SequentialImage ==
    /\ result = "returned"
    /\ seq_image = None
    /\ seq_image' = Some(sequential_image(width, height, function, threshold))
    /\ UNCHANGED <<width, height, function, threshold, row_n,
                   image_backend, mutex, pc, y, row, result, claims, writes>>
    /\ UNCHANGED <<eval_vars, unit_vars>>

Worker(w) == Claim(w) \/ Compute(w) \/ Lock(w) \/ Copy(w)

Next ==
    \/ \E w \in Workers : Worker(w)
    \/ ScopeJoin
    \/ Return
    \/ SequentialImage

Spec == Init /\ [][Next]_vars

\* The threads are scheduled fairly, and the caller goes on once it can.
FairSpec ==
    /\ Spec
    /\ \A w \in Workers : WF_vars(Worker(w))
    /\ WF_vars(ScopeJoin)
    /\ WF_vars(Return)

\* ------------------------------------- applications_until, pass by pass

\* The state of the renderers while a call of the evaluator is modelled.
RenderIdle ==
    /\ width = 0
    /\ height = 0
    /\ function = "identity"
    /\ threshold = 0
    /\ row_n = 0
    /\ image_backend = <<>>
    /\ mutex = None
    /\ pc = [w \in Workers |-> "done"]
    /\ y = [w \in Workers |-> 0]
    /\ row = [w \in Workers |-> <<>>]
    /\ result = "idle"
    /\ seq_image = None
    /\ claims = <<>>
    /\ writes = <<>>

Coords == (0 - MaxCoord) .. MaxCoord

Bounds == {None} \cup {Some(n) : n \in 0 .. MaxBound}

\* let mut value = initial; let mut count = 0;
InitEval ==
    /\ initial \in {Complex64(re, im) : re \in Coords, im \in Coords}
    /\ eval_function \in Functions
    /\ eval_threshold \in Thresholds
    /\ bound \in Bounds
    /\ value = initial
    /\ count = 0
    /\ calls = 0
    /\ eval_pc = "while"
    /\ RenderIdle
    /\ UnitIdle

\* The loop body: count += 1; value = function(value).  A call without a
\* bound is followed for MaxBound + 1 passes.
LoopBody ==
    /\ eval_pc = "while"
    /\ loop_condition(value, count, eval_threshold, bound)
    /\ count <= MaxBound
    /\ count' = count + 1
    /\ value' = call(eval_function, value)
    /\ calls' = calls + 1
    /\ UNCHANGED <<initial, eval_function, eval_threshold, bound, eval_pc>>
    /\ UNCHANGED <<render_vars, unit_vars>>

\* The loop is left and count is returned.
LoopExit ==
    /\ eval_pc = "while"
    /\ ~loop_condition(value, count, eval_threshold, bound)
    /\ eval_pc' = "returned"
    /\ UNCHANGED <<initial, eval_function, eval_threshold, bound, value,
                   count, calls>>
    /\ UNCHANGED <<render_vars, unit_vars>>

NextEval == LoopBody \/ LoopExit

SpecEval == InitEval /\ [][NextEval]_vars

\* The evaluator runs on whenever it can take a step.
FairSpecEval == SpecEval /\ WF_vars(NextEval)

\* -------------------------------------------------------------- f64 values

\* An f64 is modelled as the exact value it stands for: a rational num/den in
\* lowest terms with den > 0, or one of the values IEEE 754 adds to them,
\* +inf (1/0), -inf (-1/0) and NaN (0/0).  Rounding is not modelled, and -0.0
\* is not told from 0.0, which compares equal to it.
abs(n) == IF n < 0 THEN 0 - n ELSE n

sign(n) == IF n > 0 THEN 1 ELSE IF n < 0 THEN 0 - 1 ELSE 0

RECURSIVE gcd(_, _)
gcd(a, b) == IF b = 0 THEN a ELSE gcd(b, a % b)

\* The value n/d in lowest terms; n/0 is an infinity or NaN.
f64(n, d) ==
    IF d = 0 THEN [num |-> sign(n), den |-> 0]
    ELSE LET g == gcd(abs(n), abs(d))
         IN [num |-> sign(d) * sign(n) * (abs(n) \div g), den |-> abs(d) \div g]

NaN == [num |-> 0, den |-> 0]

INFINITY == [num |-> 1, den |-> 0]

NEG_INFINITY == [num |-> 0 - 1, den |-> 0]

is_nan(a) == a.num = 0 /\ a.den = 0

is_finite(a) == a.den > 0

\* `n as f64` for an unsigned integer n.
as_f64(n) == f64(n, 1)

fneg(a) == [num |-> 0 - a.num, den |-> a.den]

\* a + b: inf + -inf is NaN.
fadd(a, b) ==
    IF is_nan(a) \/ is_nan(b) THEN NaN
    ELSE IF a.den = 0 /\ b.den = 0 THEN (IF a = b THEN a ELSE NaN)
    ELSE IF a.den = 0 THEN a
    ELSE IF b.den = 0 THEN b
    ELSE f64(a.num * b.den + b.num * a.den, a.den * b.den)

fsub(a, b) == fadd(a, fneg(b))

\* a * b: inf * 0 is NaN.
fmul(a, b) ==
    IF is_nan(a) \/ is_nan(b) THEN NaN
    ELSE f64(a.num * b.num, a.den * b.den)

\* 1.0 / b: 1/0 is +inf, 1/inf is 0.
frecip(b) ==
    IF is_nan(b) THEN NaN
    ELSE IF b.den = 0 THEN f64(0, 1)
    ELSE f64(b.den, b.num)

\* a / b: 0/0 and inf/inf are NaN, x/0 is an infinity for x /= 0.
fdiv(a, b) == fmul(a, frecip(b))

\* a < b: false when either is NaN.
flt(a, b) ==
    /\ ~is_nan(a)
    /\ ~is_nan(b)
    /\ IF a.den = 0 \/ b.den = 0
       THEN a /= b /\ (a = NEG_INFINITY \/ b = INFINITY)
       ELSE a.num * b.den < b.num * a.den

\* a > b
fgt(a, b) == flt(b, a)

\* a == b: false when either is NaN.
feq(a, b) == ~is_nan(a) /\ ~is_nan(b) /\ a = b

\* ---------------------------------------------------- the coordinate mappers

\* interpolate_pixel with x / width for x / (width - 1).
interpolate_pixel_by_width(x, yy, w, h, min_x, max_x, min_y, max_y) ==
    Complex64(fadd(min_x, fmul(fdiv(as_f64(x), as_f64(w)),
                               fsub(max_x, min_x))),
              fadd(min_y, fmul(fdiv(as_f64(yy), as_f64(h)),
                               fsub(max_y, min_y))))

\* The complex value of the pixel (x, y) of a w by h image.  It is called for
\* the pixels of the image only, so w - 1 and h - 1 do not go below zero.
interpolate_pixel(x, yy, w, h, min_x, max_x, min_y, max_y) ==
    Complex64(fadd(min_x, fmul(fdiv(as_f64(x), as_f64(w - 1)),
                               fsub(max_x, min_x))),
              fadd(min_y, fmul(fdiv(as_f64(yy), as_f64(h - 1)),
                               fsub(max_y, min_y))))

\* The adjustment with the sum of the bounds for their centre.
adjust_uncentred(min, max, viewport_ratio, range_ratio) ==
    LET center == fadd(min, max)
        arm == fdiv(fmul(fsub(max, center), viewport_ratio), range_ratio)
    IN  <<fsub(center, arm), fadd(center, arm)>>

\* The adjustment of the bounds (min, max) of the axis picked:
\* center = (min + max) / 2.0; arm = (max - center) * viewport_ratio /
\* range_ratio; min = center - arm; max = center + arm.
adjust(min, max, viewport_ratio, range_ratio) ==
    LET center == fdiv(fadd(min, max), as_f64(2))
        arm == fdiv(fmul(fsub(max, center), viewport_ratio), range_ratio)
    IN  <<fsub(center, arm), fadd(center, arm)>>

\* The values a closure captures.
captured(w, h, min_x, max_x, min_y, max_y) ==
    [width |-> w, height |-> h, min_x |-> min_x, max_x |-> max_x,
     min_y |-> min_y, max_y |-> max_y]

\* The values the closure interpolate_stretch returns has captured: its
\* arguments as they are given.
interpolate_stretch(w, h, min_x, max_x, min_y, max_y) ==
    captured(w, h, min_x, max_x, min_y, max_y)

\* The values the closure interpolate_rectilinear returns has captured: the
\* bounds of one axis are adjusted when the two ratios differ.
interpolate_rectilinear(w, h, min_x, max_x, min_y, max_y) ==
    LET viewport_ratio == fdiv(as_f64(w), as_f64(h))
        range_ratio == fdiv(fsub(max_x, min_x), fsub(max_y, min_y))
        xs == adjust(min_x, max_x, viewport_ratio, range_ratio)
        ys == adjust(min_y, max_y, viewport_ratio, range_ratio)
    IN  IF fgt(viewport_ratio, range_ratio)
        THEN captured(w, h, xs[1], xs[2], min_y, max_y)
        ELSE IF flt(viewport_ratio, range_ratio)
        THEN captured(w, h, min_x, max_x, ys[1], ys[2])
        ELSE captured(w, h, min_x, max_x, min_y, max_y)

MaxSize == 3

MaxView == 2

\* The image sizes of the model; the width 101 is there for its middle pixel.
Heights == 0 .. MaxSize

Widths == Heights \cup {101}

\* The bounds of the viewports of the model, as f64 values.
ViewMins == {as_f64(n) : n \in (0 - MaxView) .. 0}

ViewMaxs == {as_f64(n) : n \in 0 .. MaxView}

\* The arguments of a call of a constructor.
arguments(kind, w, h, min_x, max_x, min_y, max_y) ==
    [kind |-> kind, width |-> w, height |-> h, min_x |-> min_x,
     max_x |-> max_x, min_y |-> min_y, max_y |-> max_y]

\* A call of interpolate_stretch.
InterpolateStretch ==
    /\ mapper = None
    /\ \E w \in Widths, h \in Heights, min_x \in ViewMins, max_x \in ViewMaxs,
          min_y \in ViewMins, max_y \in ViewMaxs :
          /\ given' = Some(arguments("stretch", w, h,
                                     min_x, max_x, min_y, max_y))
          /\ mapper' = Some(interpolate_stretch(w, h,
                                                min_x, max_x, min_y, max_y))
    /\ UNCHANGED <<sample, iter_vars, lerp_vars, wide_vars, render_vars,
                   eval_vars>>

\* A call of interpolate_rectilinear.
InterpolateRectilinear ==
    /\ mapper = None
    /\ \E w \in Widths, h \in Heights, min_x \in ViewMins, max_x \in ViewMaxs,
          min_y \in ViewMins, max_y \in ViewMaxs :
          /\ given' = Some(arguments("rectilinear", w, h,
                                     min_x, max_x, min_y, max_y))
          /\ mapper' = Some(interpolate_rectilinear(w, h,
                                                    min_x, max_x, min_y, max_y))
    /\ UNCHANGED <<sample, iter_vars, lerp_vars, wide_vars, render_vars,
                   eval_vars>>

\* A call of the closure on a pixel of the image, as the renderers make it.
\* The closure keeps no state, so one call of it is followed.
MapPixel ==
    /\ mapper /= None
    /\ sample = None
    /\ LET m == unwrap(mapper)
       IN \E x \in 0 .. m.width - 1, yy \in 0 .. m.height - 1 :
             sample' = Some([x |-> x, y |-> yy,
                             z |-> interpolate_pixel(x, yy, m.width, m.height,
                                                     m.min_x, m.max_x,
                                                     m.min_y, m.max_y)])
    /\ UNCHANGED <<given, mapper, iter_vars, lerp_vars, wide_vars,
                   render_vars, eval_vars>>

\* No renderer, evaluator, mapper or iterator has been set up.
InitUnit == RenderIdle /\ EvalIdle /\ UnitIdle

NextInterp == InterpolateStretch \/ InterpolateRectilinear \/ MapPixel

SpecInterp == InitUnit /\ [][NextInterp]_vars

\* ------------------------------------------------------------- DupeFirst

MaxItems == 3

\* The items (C, S) of the model: C and S are integers, as in test_dupe_first.
Items == {<<c, ss>> : c \in {1, 3}, ss \in {2, 4}}

\* The vectors the underlying iterator goes over.
RECURSIVE Vectors(_)
Vectors(n) ==
    IF n = 0 THEN {<<>>}
    ELSE Vectors(n - 1) \cup
         {Append(v, i) : v \in {u \in Vectors(n - 1) : Len(u) = n - 1},
                         i \in Items}

\* Iterator::next of the underlying iterator, which holds the items left:
\* the item it returns, and the iterator afterwards.  Once it is at its end
\* it returns None on every call.
next_item(it) == IF it = <<>> THEN None ELSE Some(Head(it))

advance(it) == IF it = <<>> THEN it ELSE Tail(it)

\* duplicate_first: DupeFirst { previous: self.next(), iterator: self }
duplicate_first(it) == [previous |-> next_item(it), iterator |-> advance(it)]

\* DupeFirst::next yielding the C of the previous item twice.
dupe_next_same_c(d) ==
    LET prev == d.previous
        previous == next_item(d.iterator)
    IN  [self |-> [previous |-> previous, iterator |-> advance(d.iterator)],
         item |-> IF prev /= None /\ previous /= None
                  THEN Some(<<unwrap(prev)[1], unwrap(prev)[2],
                              unwrap(prev)[1]>>)
                  ELSE None]

\* DupeFirst::next: the struct afterwards and the item returned.
\* prev = mem::replace(&mut self.previous, self.iterator.next()), then
\* Some((pc, ps, nc.clone())) when prev and self.previous are both Some.
dupe_next(d) ==
    LET prev == d.previous
        previous == next_item(d.iterator)
    IN  [self |-> [previous |-> previous, iterator |-> advance(d.iterator)],
         item |-> IF prev /= None /\ previous /= None
                  THEN Some(<<unwrap(prev)[1], unwrap(prev)[2],
                              unwrap(previous)[1]>>)
                  ELSE None]

\* A call of duplicate_first on an iterator over a vector.
DuplicateFirst ==
    /\ dupe_first = None
    /\ \E v \in Vectors(MaxItems) :
          /\ dupe_input' = v
          /\ dupe_first' = Some(duplicate_first(v))
    /\ UNCHANGED <<dupe_out, interp_vars, lerp_vars, wide_vars, render_vars,
                   eval_vars>>

\* A call of next; the calls are followed to the second None at least.
DupeNext ==
    /\ dupe_first /= None
    /\ Len(dupe_out) <= MaxItems
    /\ dupe_first' = Some(dupe_next(unwrap(dupe_first)).self)
    /\ dupe_out' = Append(dupe_out, dupe_next(unwrap(dupe_first)).item)
    /\ UNCHANGED <<dupe_input, interp_vars, lerp_vars, wide_vars,
                   render_vars, eval_vars>>

NextIter == DuplicateFirst \/ DupeNext

SpecIter == InitUnit /\ [][NextIter]_vars

\* ------------------------------------------------------------------ lerp

MaxSteps == 3

\* Lerp::lerp: self + ((other - self) * t)
lerp(a, b, t) == fadd(a, fmul(fsub(b, a), t))

\* LerpIterator::new
LerpIterator(begin, end, steps) ==
    [begin |-> begin, end |-> end, steps |-> steps, current_step |-> 0]

\* LerpIterator::next with current_step incremented before t is taken.
lerp_next_late(it) ==
    IF it.current_step >= it.steps
    THEN [self |-> it, item |-> None]
    ELSE LET t == fdiv(as_f64(it.current_step + 1), as_f64(it.steps))
         IN  [self |-> [it EXCEPT !.current_step = it.current_step + 1],
              item |-> Some(lerp(it.begin, it.end, t))]

\* LerpIterator::next: the struct afterwards and the item returned.
lerp_next(it) ==
    IF it.current_step >= it.steps
    THEN [self |-> it, item |-> None]
    ELSE LET t == fdiv(as_f64(it.current_step), as_f64(it.steps))
         IN  [self |-> [it EXCEPT !.current_step = it.current_step + 1],
              item |-> Some(lerp(it.begin, it.end, t))]

\* LerpIterator::size_hint
size_hint(it) ==
    LET remaining == IF it.current_step >= it.steps
                     THEN 0
                     ELSE it.steps - it.current_step
    IN  <<remaining, Some(remaining)>>

\* Chain<LerpIterator, Once>::next on the pair (the LerpIterator, what the
\* Once holds): the items of the first iterator, then the item of the Once.
chain_next(c) ==
    LET r == lerp_next(c.a)
    IN  IF r.item /= None
        THEN [self |-> [a |-> r.self, b |-> c.b], item |-> r.item]
        ELSE [self |-> [a |-> r.self, b |-> None], item |-> c.b]

\* Iterator::nth on the chain: n items are taken and dropped, the next one is
\* returned; None as soon as the chain is at its end.
RECURSIVE chain_nth(_, _)
chain_nth(c, n) ==
    LET r == chain_next(c)
    IN  IF n = 0 \/ r.item = None THEN r ELSE chain_nth(r.self, n - 1)

\* Skip::next on (the chain, the number n of items to skip): the first call
\* drops n items of the chain.
skip_next(sk) ==
    LET r == IF sk.n = 0 THEN chain_next(sk.iter) ELSE chain_nth(sk.iter, sk.n)
    IN  [self |-> [iter |-> r.self, n |-> 0], item |-> r.item]

\* The values lerp picks from.
LerpValues == {as_f64(3), as_f64(5), as_f64(0 - 1)}

\* A call of lerp_iter.
LerpIter ==
    /\ lerp_args = None
    /\ \E a \in LerpValues, b \in LerpValues, steps \in 0 .. MaxSteps :
          /\ lerp_args' = Some([kind |-> "lerp_iter", self |-> a,
                                other |-> b, steps |-> steps])
          /\ lerp_iterator' = Some(LerpIterator(a, b, steps))
    /\ UNCHANGED lerp_out
    /\ UNCHANGED <<interp_vars, iter_vars, wide_vars, render_vars, eval_vars>>

\* A call of lerp_iter_closed: one step less for the LerpIterator and one item
\* to skip when steps > 0, then
\* self.lerp_iter(other, steps).chain(iter::once(other)).skip(skipn)
LerpIterClosed ==
    /\ lerp_args = None
    /\ \E a \in LerpValues, b \in LerpValues, steps \in 0 .. MaxSteps :
          /\ lerp_args' = Some([kind |-> "lerp_iter_closed", self |-> a,
                                other |-> b, steps |-> steps])
          /\ lerp_iterator' =
                Some([iter |-> [a |-> LerpIterator(a, b, IF steps > 0
                                                         THEN steps - 1
                                                         ELSE steps),
                                b |-> Some(b)],
                      n |-> IF steps > 0 THEN 1 ELSE 0])
    /\ UNCHANGED lerp_out
    /\ UNCHANGED <<interp_vars, iter_vars, wide_vars, render_vars, eval_vars>>

\* A call of next on the iterator lerp_iter returned; the calls are followed
\* to the second None at least.
LerpNext ==
    /\ lerp_args /= None
    /\ unwrap(lerp_args).kind = "lerp_iter"
    /\ Len(lerp_out) <= MaxSteps + 1
    /\ lerp_iterator' = Some(lerp_next(unwrap(lerp_iterator)).self)
    /\ lerp_out' = Append(lerp_out, lerp_next(unwrap(lerp_iterator)).item)
    /\ UNCHANGED lerp_args
    /\ UNCHANGED <<interp_vars, iter_vars, wide_vars, render_vars, eval_vars>>

\* A call of next on the iterator lerp_iter_closed returned.
ClosedNext ==
    /\ lerp_args /= None
    /\ unwrap(lerp_args).kind = "lerp_iter_closed"
    /\ Len(lerp_out) <= MaxSteps + 1
    /\ lerp_iterator' = Some(skip_next(unwrap(lerp_iterator)).self)
    /\ lerp_out' = Append(lerp_out, skip_next(unwrap(lerp_iterator)).item)
    /\ UNCHANGED lerp_args
    /\ UNCHANGED <<interp_vars, iter_vars, wide_vars, render_vars, eval_vars>>

NextLerp == LerpIter \/ LerpIterClosed \/ LerpNext \/ ClosedNext

SpecLerp == InitUnit /\ [][NextLerp]_vars

\* ------------------------------------------- the render of a wide image

\* parallel_image on images whose u32 arithmetic can overflow.  A u32 is held
\* as its two 16-bit halves, [hi, lo] standing for hi * 2^16 + lo, and its
\* products are taken byte by byte, so that no number of the model goes past
\* 2^31.  Only the lengths and the indexes of the render are followed, not the
\* pixels, and the steps of the workers are taken one row after the other:
\* their interleaving is what Spec follows.

MaxWideRows == 3

HALF == 65536

BYTE == 256

u32(hi, lo) == [hi |-> hi, lo |-> lo]

\* The four bytes of a u32, the lowest first.
bytes(a) == <<a.lo % BYTE, a.lo \div BYTE, a.hi % BYTE, a.hi \div BYTE>>

\* The u32 of four bytes.
from_bytes(d) == u32(d[4] * BYTE + d[3], d[2] * BYTE + d[1])

\* The products of byte i of A with the byte of B that meets it at place k.
term(A, B, i, k) ==
    IF k - i \in 0 .. 3 THEN A[i + 1] * B[k - i + 1] ELSE 0

coefficient(A, B, k) ==
    term(A, B, 0, k) + term(A, B, 1, k) + term(A, B, 2, k) + term(A, B, 3, k)

\* The bytes k .. 7 of the product of A and B, given the carry into place k.
RECURSIVE product_bytes(_, _, _, _)
product_bytes(A, B, k, carry) ==
    IF k = 8 THEN <<>>
    ELSE LET t == coefficient(A, B, k) + carry
         IN  <<t % BYTE>> \o product_bytes(A, B, k + 1, t \div BYTE)

\* The exact product of two u32, as the eight bytes of a u64.
full_mul(a, b) == product_bytes(bytes(a), bytes(b), 0, 0)

\* Whether a * b does not fit a u32.
mul_overflows(a, b) == SubSeq(full_mul(a, b), 5, 8) /= <<0, 0, 0, 0>>

\* a * b modulo 2^32.
wrapping_mul(a, b) == from_bytes(SubSeq(full_mul(a, b), 1, 4))

\* a < b
lt(a, b) == a.hi < b.hi \/ (a.hi = b.hi /\ a.lo < b.lo)

\* a - b for a >= b
sub(a, b) ==
    IF a.lo >= b.lo THEN u32(a.hi - b.hi, a.lo - b.lo)
    ELSE u32(a.hi - b.hi - 1, a.lo + HALF - b.lo)

\* a + 1 for a below u32::MAX
add_one(a) == IF a.lo = HALF - 1 THEN u32(a.hi + 1, 0) ELSE u32(a.hi, a.lo + 1)

\* `n as u32` for a usize n: the low 32 bits.
as_u32(n) == u32((n \div HALF) % HALF, n % HALF)

\* The widths and heights of the model: a few pixels, and sizes around 2^16
\* and at u32::MAX.
WideValues ==
    {u32(0, n) : n \in 0 .. MaxWideRows} \cup
    {u32(0, HALF - 1), u32(1, 0), u32(1, 1), u32(HALF - 1, HALF - 1)}

\* The state when parallel_image is called.  A build with overflow checks
\* ("debug") panics where a build without them ("release") wraps.
\*   build  : whether overflow checks are compiled in
\*   width, height : the arguments, u32
\*   len    : the length of the buffer, or None before it is allocated
\*   row_n  : the shared row cursor
\*   y      : the row claimed and not yet copied, or None
\*   idx    : the row, idx_start and idx_end of the last copy, or None
\*   ended  : how many workers have ended
\*   result : where the call is
InitWide ==
    /\ wide \in [build : {"debug", "release"},
                 width : WideValues,
                 height : WideValues,
                 len : {None},
                 row_n : {0},
                 y : {None},
                 idx : {None},
                 ended : {0},
                 result : {"start"}]
    /\ RenderIdle
    /\ EvalIdle
    /\ InterpIdle
    /\ IterIdle
    /\ LerpIdle

\* vec![0_u8; (width * height) as usize]
WideAllocate ==
    /\ wide /= None
    /\ wide.result = "start"
    /\ wide' =
          IF mul_overflows(wide.width, wide.height) /\ wide.build = "debug"
          THEN [wide EXCEPT !.result = "panicked"]
          ELSE [wide EXCEPT !.result = "running",
                            !.len = Some(wrapping_mul(wide.width, wide.height))]
    /\ UNCHANGED <<interp_vars, iter_vars, lerp_vars, render_vars, eval_vars>>

\* let y = row_n.fetch_add(1, SeqCst) as u32; if y >= height { break; }
\* The claims are followed up to the cursor value MaxWideRows + THREADS.
WideClaim ==
    /\ wide /= None
    /\ wide.result = "running"
    /\ wide.y = None
    /\ wide.ended < THREADS
    /\ wide.row_n < MaxWideRows + THREADS
    /\ wide' =
          IF lt(as_u32(wide.row_n), wide.height)
          THEN [wide EXCEPT !.row_n = wide.row_n + 1,
                            !.y = Some(as_u32(wide.row_n))]
          ELSE [wide EXCEPT !.row_n = wide.row_n + 1,
                            !.ended = wide.ended + 1]
    /\ UNCHANGED <<interp_vars, iter_vars, lerp_vars, render_vars, eval_vars>>

\* idx_start = (y * width) as usize; idx_end = ((y + 1) * width) as usize;
\* image_backend[idx_start..idx_end].clone_from_slice(&row): the slice panics
\* when it is not within the buffer, and the copy when the lengths differ.
WideCopy ==
    /\ wide /= None
    /\ wide.result = "running"
    /\ wide.y /= None
    /\ LET yy == unwrap(wide.y)
           start == wrapping_mul(yy, wide.width)
           end == wrapping_mul(add_one(yy), wide.width)
           overflows == \/ mul_overflows(yy, wide.width)
                        \/ mul_overflows(add_one(yy), wide.width)
       IN  wide' =
              IF overflows /\ wide.build = "debug"
              THEN [wide EXCEPT !.y = None, !.result = "panicked"]
              ELSE [wide EXCEPT
                      !.y = None,
                      !.idx = Some([y |-> yy, idx_start |-> start,
                                    idx_end |-> end]),
                      !.result = IF \/ lt(end, start)
                                    \/ lt(unwrap(wide.len), end)
                                    \/ sub(end, start) /= wide.width
                                 THEN "panicked" ELSE "running"]
    /\ UNCHANGED <<interp_vars, iter_vars, lerp_vars, render_vars, eval_vars>>

\* Every worker has ended: ImageBuffer::from_raw(width, height, ..).unwrap()
\* returns the buffer when it holds width * height cells at least.
WideReturn ==
    /\ wide /= None
    /\ wide.result = "running"
    /\ wide.ended = THREADS
    /\ wide' = [wide EXCEPT !.result =
                    IF mul_overflows(wide.width, wide.height)
                    THEN "panicked" ELSE "returned"]
    /\ UNCHANGED <<interp_vars, iter_vars, lerp_vars, render_vars, eval_vars>>

NextWide == WideAllocate \/ WideClaim \/ WideCopy \/ WideReturn

SpecWide == InitWide /\ [][NextWide]_vars

\* ------------------------------------------------------------ properties

Active == {"compute", "lock", "copy"}

Finished == {"done", "panicked"}

Cells == 1 .. Len(image_backend)

\* The claims made so far that returned a row index below the height.
Successful == {i \in 1 .. Len(claims) : claims[i] < height}

\* C1: the buffer parallel_image returns is byte for byte the buffer
\* sequential_image returns for the same inputs, and in both the byte at index
\* y * width + x is applications_until(interpolate(x, y), function, threshold,
\* Some(255)) as u8.
C1_ParallelEqualsSequential ==
    seq_image /= None =>
        /\ result = "returned"
        /\ image_backend = unwrap(seq_image)
        /\ Len(image_backend) = width * height
        /\ \A x \in 0 .. width - 1 : \A yy \in 0 .. height - 1 :
              image_backend[yy * width + x + 1] =
                  pixel(x, yy, function, threshold)

C1_Witness ==
    /\ seq_image /= None
    /\ width >= 2
    /\ height >= 2
    /\ \E i \in Cells : \E j \in Cells : image_backend[i] /= image_backend[j]

\* C2: the k-th claim returns k - 1, so the claims that return a row index
\* below the height return 0, 1, ... in turn and none twice; a worker goes on
\* to compute a row only for an index below the height and ends on an index
\* at or above it; and when the render returns exactly height claims have
\* succeeded, every worker having made one more that ended it.
C2_RowClaims ==
    /\ \A i \in 1 .. Len(claims) : claims[i] = i - 1
    /\ Cardinality(Successful) <= height
    /\ \A w \in Workers : pc[w] \in Active \cup {"panicked"} => y[w] < height
    /\ \A w \in Workers : pc[w] = "done" => y[w] >= height
    /\ result = "returned" =>
          /\ Cardinality(Successful) = height
          /\ {claims[i] : i \in Successful} = 0 .. height - 1
          /\ Len(claims) = height + THREADS

C2_Witness ==
    /\ result = "returned"
    /\ height >= 3
    /\ Len(claims) = height + THREADS

\* C3, in every state: a worker is copying exactly when it holds the mutex, so
\* at most one worker is; and two workers that have claimed rows and not yet
\* written them hold different rows, whose slices do not overlap.
C3_Exclusive ==
    /\ \A w \in Workers : pc[w] = "copy" <=> mutex = Some(w)
    /\ \A w1 \in Workers : \A w2 \in Workers :
          w1 /= w2 /\ pc[w1] \in Active /\ pc[w2] \in Active =>
              /\ y[w1] /= y[w2]
              /\ \/ idx_end(y[w1], width) <= idx_start(y[w2], width)
                 \/ idx_end(y[w2], width) <= idx_start(y[w1], width)

\* C3, in every step: the buffer changes only in a step of the worker that
\* holds the mutex, and only inside the slice of that worker's row.
C3_WriteUnderLock ==
    image_backend' /= image_backend =>
        \E w \in Workers :
            /\ mutex = Some(w)
            /\ pc[w] = "copy"
            /\ Len(image_backend') = Len(image_backend)
            /\ \A i \in Cells :
                  image_backend'[i] /= image_backend[i] =>
                      /\ idx_start(y[w], width) < i
                      /\ i <= idx_end(y[w], width)

\* C3: no two workers ever have write access to overlapping regions of the
\* buffer: the buffer is written only under the mutex, and the rows held by
\* different workers are distinct and their slices disjoint.
C3_NoOverlappingWrites == []C3_Exclusive /\ [][C3_WriteUnderLock]_vars

C3_Witness ==
    \E w1 \in Workers : \E w2 \in Workers :
        /\ pc[w1] = "copy"
        /\ pc[w2] = "lock"
        /\ width >= 2
        /\ \E i \in Cells : writes[i] > 0

\* C4: when parallel_image has returned, every worker has ended, and every
\* cell of the buffer, which has width * height cells, has been written exactly
\* once, row y at the cells y * width .. (y + 1) * width - 1.
C4_CompleteOnReturn ==
    result \in {"joined", "returned"} =>
        /\ \A w \in Workers : pc[w] = "done"
        /\ mutex = None
        /\ Len(image_backend) = width * height
        /\ \A i \in Cells : writes[i] = 1
        /\ \A yy \in 0 .. height - 1 :
              \A i \in idx_start(yy, width) + 1 .. idx_end(yy, width) :
                  image_backend[i] =
                      pixel(i - 1 - idx_start(yy, width), yy, function, threshold)

C4_Witness ==
    /\ result = "returned"
    /\ width >= 2
    /\ height >= 3
    /\ \E i \in Cells : image_backend[i] /= 0

\* C5: under fair scheduling, with a step function that does not panic, the
\* render returns for every height from 0 on: every worker ends on a cursor
\* value at or above the height, after at most height successful claims.
C5_Terminates ==
    function /= "translate_or_panic" =>
        <>(/\ result = "returned"
           /\ \A w \in Workers : pc[w] = "done" /\ y[w] >= height
           /\ Cardinality(Successful) <= height)

C5_Witness ==
    /\ result = "returned"
    /\ height > 0
    /\ height < THREADS
    /\ \E w \in Workers : y[w] = height

\* Whether the computation of some pixel of the image panics.
SomePixelPanics ==
    \E x \in 0 .. width - 1 : \E yy \in 0 .. height - 1 :
        pixel_panics(x, yy, function, threshold)

\* C6, in every state: once a worker has panicked the call has not returned a
\* buffer and never does; the panic reaches the caller only when every other
\* worker has ended; and a call that gets past the scope had no pixel whose
\* computation panics.
C6_NoBufferAfterPanic ==
    /\ (\E w \in Workers : pc[w] = "panicked") =>
          result \in {"running", "panicked"}
    /\ result = "panicked" =>
          /\ \E w \in Workers : pc[w] = "panicked"
          /\ \A w \in Workers : pc[w] \in Finished
    /\ result \in {"joined", "returned"} => ~SomePixelPanics

\* C6: if the computation of a pixel panics in a worker the call fails: the
\* panic is raised in the caller once the other workers have been joined, and
\* no buffer is returned.
C6_PanicPropagates ==
    /\ []C6_NoBufferAfterPanic
    /\ SomePixelPanics => <>[](result = "panicked")

C6_Witness ==
    /\ result = "panicked"
    /\ \E w \in Workers : pc[w] = "done"
    /\ \E i \in Cells : writes[i] = 1
    /\ \E i \in Cells : writes[i] = 0

\* C7: with a width or a height of 0 the render does not return a buffer as
\* if it had succeeded.
C7_ZeroDimensionRejected ==
    (width = 0 \/ height = 0) => result /= "returned"

\* The n-th iterate of the step function on z.
RECURSIVE orbit(_, _, _)
orbit(f, z, n) == IF n = 0 THEN z ELSE call(f, orbit(f, z, n - 1))

\* C8, in every state: a call with Some(bound) never counts past the bound and
\* returns a count in 0 .. bound; on the identity map from 0 with a positive
\* threshold it returns the bound, having called the map bound times.
C8_WithinBound ==
    bound /= None =>
        /\ count \in 0 .. unwrap(bound)
        /\ eval_pc = "returned" /\ eval_function = "identity"
           /\ initial = Complex64(0, 0) /\ eval_threshold > 0 =>
              /\ count = unwrap(bound)
              /\ calls = unwrap(bound)

\* C8: applications_until(initial, f, threshold, Some(bound)) always returns,
\* and returns an integer in 0 .. bound: exactly the bound, after bound calls
\* of f, for the identity map from 0 with a positive threshold.
C8_BoundEnforced ==
    /\ []C8_WithinBound
    /\ bound /= None => <>(eval_pc = "returned")

C8_Witness ==
    /\ eval_pc = "returned"
    /\ eval_function = "identity"
    /\ initial = Complex64(0, 0)
    /\ eval_threshold > 0
    /\ bound = Some(MaxBound)
    /\ count = MaxBound

\* C9: the count returned for Some(bound) is the least n in 0 .. bound such
\* that n is the bound or the n-th iterate fails re^2 + im^2 < threshold^2;
\* f has then been called exactly n times, and not at all when the initial
\* value fails the test.
C9_LeastEscape ==
    /\ calls = count
    /\ value = orbit(eval_function, initial, count)
    /\ eval_pc = "returned" /\ bound /= None =>
          /\ count <= unwrap(bound)
          /\ \/ count = unwrap(bound)
             \/ ~(norm_sqr(value) < eval_threshold * eval_threshold)
          /\ \A k \in 0 .. count - 1 :
                LET z == orbit(eval_function, initial, k)
                IN norm_sqr(z) < eval_threshold * eval_threshold
          /\ ~(norm_sqr(initial) < eval_threshold * eval_threshold) =>
                count = 0 /\ calls = 0
          /\ count = applications_until(initial, eval_function,
                                        eval_threshold, bound)

C9_Witness ==
    /\ eval_pc = "returned"
    /\ bound = Some(MaxBound)
    /\ count > 0
    /\ count < MaxBound
    /\ norm_sqr(value) = eval_threshold * eval_threshold

\* The test of the doc comment: both components within the threshold.
components_within(z, t) == abs(z.re) < t /\ abs(z.im) < t

\* C10: with a positive threshold, the loop goes on exactly while both
\* components of the running value are within the threshold and the bound is
\* not reached.
C10_PerComponentTest ==
    eval_pc = "while" /\ eval_threshold > 0 =>
        (loop_condition(value, count, eval_threshold, bound)
            <=> /\ count < unwrap_or(bound, USIZE_MAX)
                /\ components_within(value, eval_threshold))

\* Whether the bounds a mapper has captured are all finite numbers.
FiniteViewport(m) ==
    /\ is_finite(m.min_x)
    /\ is_finite(m.max_x)
    /\ is_finite(m.min_y)
    /\ is_finite(m.max_y)

\* C11: a mapper of a 1 by 1 image maps the pixel (0, 0) to exactly
\* (min_x, min_y); more generally a width of 1 gives the real part min_x and a
\* height of 1 the imaginary part min_y, both defined numbers.
C11_UnitImageMapsToMin ==
    sample /= None /\ FiniteViewport(unwrap(mapper)) =>
        LET m == unwrap(mapper)
            z == unwrap(sample).z
        IN  /\ m.width = 1 => feq(z.re, m.min_x)
            /\ m.height = 1 => feq(z.im, m.min_y)

\* Whether a constructor was called for an image with pixels and a viewport
\* with max > min on each axis.
ProperArguments(g) ==
    /\ g.width > 0
    /\ g.height > 0
    /\ flt(g.min_x, g.max_x)
    /\ flt(g.min_y, g.max_y)

\* C12: the viewport of the mapper interpolate_rectilinear returns has the
\* aspect ratio width / height of the image, whichever axis was adjusted, and
\* no range of it is smaller than the range given.
C12_AspectMatches ==
    given /= None /\ unwrap(given).kind = "rectilinear"
                  /\ ProperArguments(unwrap(given)) =>
        LET g == unwrap(given)
            m == unwrap(mapper)
        IN  /\ feq(fdiv(fsub(m.max_x, m.min_x), fsub(m.max_y, m.min_y)),
                   fdiv(as_f64(g.width), as_f64(g.height)))
            /\ ~flt(fsub(m.max_x, m.min_x), fsub(g.max_x, g.min_x))
            /\ ~flt(fsub(m.max_y, m.min_y), fsub(g.max_y, g.min_y))

\* C13: for an image of at least 2 by 2 pixels the real part of the value of
\* pixel (x, y) lies on the line from min_x at x = 0 to max_x at x = width - 1,
\* whatever y is, and the imaginary part on the line from min_y at y = 0 to
\* max_y at y = height - 1, whatever x is; the pixel x = 50 of a width of 101
\* maps to the midpoint of min_x and max_x.
C13_LinearInterpolation ==
    sample /= None /\ FiniteViewport(unwrap(mapper))
                   /\ unwrap(mapper).width >= 2
                   /\ unwrap(mapper).height >= 2 =>
        LET m == unwrap(mapper)
            x == unwrap(sample).x
            yy == unwrap(sample).y
            z == unwrap(sample).z
        IN  /\ feq(fmul(z.re, as_f64(m.width - 1)),
                   fadd(fmul(m.min_x, as_f64(m.width - 1 - x)),
                        fmul(m.max_x, as_f64(x))))
            /\ feq(fmul(z.im, as_f64(m.height - 1)),
                   fadd(fmul(m.min_y, as_f64(m.height - 1 - yy)),
                        fmul(m.max_y, as_f64(yy))))
            /\ x = 0 => feq(z.re, m.min_x)
            /\ x = m.width - 1 => feq(z.re, m.max_x)
            /\ yy = 0 => feq(z.im, m.min_y)
            /\ yy = m.height - 1 => feq(z.im, m.max_y)
            /\ m.width = 101 /\ x = 50 =>
                  feq(z.re, fdiv(fadd(m.min_x, m.max_x), as_f64(2)))

C13_Witness ==
    /\ sample /= None
    /\ FiniteViewport(unwrap(mapper))
    /\ unwrap(mapper).width = 101
    /\ unwrap(mapper).height >= 2
    /\ unwrap(sample).x = 50
    /\ unwrap(sample).y = unwrap(mapper).height - 1
    /\ unwrap(mapper).min_x /= unwrap(mapper).max_x
    /\ unwrap(mapper).min_y /= unwrap(mapper).max_y
    /\ unwrap(sample).z.re /= unwrap(mapper).min_x

\* C19: interpolate_rectilinear leaves the midpoint of both axes where it was,
\* moves the two bounds of the axis it adjusts by the same amount in opposite
\* directions, leaves the bounds of at least one axis as they were given, and
\* leaves all four as given, as interpolate_stretch does, when the ratio of
\* the image is the ratio of the ranges.
C19_SymmetricAdjustment ==
    given /= None /\ unwrap(given).kind = "rectilinear"
                  /\ ProperArguments(unwrap(given)) =>
        LET g == unwrap(given)
            m == unwrap(mapper)
            SameX == feq(m.min_x, g.min_x) /\ feq(m.max_x, g.max_x)
            SameY == feq(m.min_y, g.min_y) /\ feq(m.max_y, g.max_y)
        IN  /\ feq(fadd(m.min_x, m.max_x), fadd(g.min_x, g.max_x))
            /\ feq(fadd(m.min_y, m.max_y), fadd(g.min_y, g.max_y))
            /\ feq(fsub(g.min_x, m.min_x), fsub(m.max_x, g.max_x))
            /\ feq(fsub(g.min_y, m.min_y), fsub(m.max_y, g.max_y))
            /\ SameX \/ SameY
            /\ m.width = g.width /\ m.height = g.height
            /\ feq(fdiv(as_f64(g.width), as_f64(g.height)),
                   fdiv(fsub(g.max_x, g.min_x), fsub(g.max_y, g.min_y))) =>
                  /\ SameX /\ SameY
                  /\ m = interpolate_stretch(g.width, g.height, g.min_x,
                                             g.max_x, g.min_y, g.max_y)

C19_Witness ==
    /\ given /= None
    /\ unwrap(given).kind = "rectilinear"
    /\ ProperArguments(unwrap(given))
    /\ unwrap(mapper).min_x /= unwrap(given).min_x
    /\ fadd(unwrap(given).min_x, unwrap(given).max_x) /= as_f64(0)
    /\ sample /= None

\* C14: on a vector of n items (c_i, s_i) the i-th call of next returns the
\* triple (c_i, s_i, c_{i+1}) for i < n, and None from the n-th call on: n - 1
\* triples for n > 0, none for n = 0, each starting with the C the one before
\* ended with, and the last S left out.
C14_DuplicateFirst ==
    dupe_first /= None =>
        LET n == Len(dupe_input)
        IN  /\ \A i \in 1 .. Len(dupe_out) :
                  dupe_out[i] =
                      IF i < n
                      THEN Some(<<dupe_input[i][1], dupe_input[i][2],
                                  dupe_input[i + 1][1]>>)
                      ELSE None
            /\ \A i \in 1 .. Len(dupe_out) - 1 :
                  dupe_out[i] /= None /\ dupe_out[i + 1] /= None =>
                      unwrap(dupe_out[i + 1])[1] = unwrap(dupe_out[i])[3]
            /\ Cardinality({i \in 1 .. Len(dupe_out) : dupe_out[i] /= None})
                  <= IF n = 0 THEN 0 ELSE n - 1

C14_Witness ==
    /\ dupe_first /= None
    /\ Len(dupe_input) = 3
    /\ dupe_input[1][1] /= dupe_input[2][1]
    /\ dupe_input[2][1] = dupe_input[3][1]
    /\ Len(dupe_out) = 4
    /\ dupe_out[2] /= None
    /\ dupe_out[3] = None
    /\ dupe_out[4] = None

\* The items yielded so far: the values of the calls that returned Some.
Yielded == {i \in 1 .. Len(lerp_out) : lerp_out[i] /= None}

\* C15: the iterator lerp_iter_closed returns is closed: for steps >= 2 the
\* first item it yields is self and the last, after which it returns None, is
\* other; for steps = 1 the first item is other.
C15_ClosedIterator ==
    lerp_args /= None /\ unwrap(lerp_args).kind = "lerp_iter_closed"
                      /\ Len(lerp_out) > 0 =>
        LET a == unwrap(lerp_args)
            n == Len(lerp_out)
        IN  /\ a.steps >= 2 => lerp_out[1] = Some(a.self)
            /\ a.steps >= 2 /\ n >= 2 /\ lerp_out[n] = None
                            /\ lerp_out[n - 1] /= None =>
                  lerp_out[n - 1] = Some(a.other)
            /\ a.steps = 1 => lerp_out[1] = Some(a.other)

\* C16: the k-th call of next on the iterator lerp_iter returns, for
\* k = 0 .. steps - 1, the point k/steps of the way from self to other, so self
\* first and never other; every later call returns None; and size_hint is
\* always the number of items still to come, as lower and as upper bound.
C16_HalfOpenIterator ==
    lerp_args /= None /\ unwrap(lerp_args).kind = "lerp_iter" =>
        LET a == unwrap(lerp_args)
            left == a.steps - Cardinality(Yielded)
        IN  /\ \A i \in 1 .. Len(lerp_out) :
                  IF i <= a.steps
                  THEN /\ lerp_out[i] /= None
                       /\ feq(fmul(unwrap(lerp_out[i]), as_f64(a.steps)),
                              fadd(fmul(a.self, as_f64(a.steps - (i - 1))),
                                   fmul(a.other, as_f64(i - 1))))
                       /\ a.self /= a.other => lerp_out[i] /= Some(a.other)
                  ELSE lerp_out[i] = None
            /\ Len(lerp_out) > 0 /\ a.steps >= 1 => lerp_out[1] = Some(a.self)
            /\ Cardinality(Yielded) <= a.steps
            /\ size_hint(unwrap(lerp_iterator)) = <<left, Some(left)>>

C16_Witness ==
    /\ lerp_args /= None
    /\ unwrap(lerp_args).kind = "lerp_iter"
    /\ unwrap(lerp_args).steps = 2
    /\ unwrap(lerp_args).self = as_f64(3)
    /\ unwrap(lerp_args).other = as_f64(5)
    /\ lerp_out = <<Some(as_f64(3)), Some(as_f64(4)), None, None>>

\* C17 as it is claimed: in a render of an image with rows the cursor starts
\* at 0 and never takes a value beyond the height, which it reaches when the
\* rows are used up.
C17_CursorWithinHeight == height > 0 => row_n \in 0 .. height

\* C17, in every state: the cursor is the number of claims made so far, which
\* is at most the height and one ending claim for each worker; a worker
\* computes or copies a row only for an index below the height; and past the
\* scope the cursor is the height plus THREADS.
C17_CursorRange ==
    /\ row_n = Len(claims)
    /\ row_n \in 0 .. height + THREADS
    /\ \A w \in Workers : pc[w] \in Active => y[w] \in 0 .. height - 1
    /\ result \in {"joined", "returned"} => row_n = height + THREADS

\* C17, amended: the cursor starts at 0, goes up by one at each claim and
\* never down, and stays within 0 .. height + THREADS: it goes past the height
\* by the one claim with which each worker ends, and only the indexes below
\* the height are rows to compute.
C17_CursorOvershoots ==
    /\ []C17_CursorRange
    /\ [][row_n' = row_n \/ row_n' = row_n + 1]_vars

C17_Witness ==
    /\ result = "returned"
    /\ height >= 2
    /\ row_n = height + THREADS

\* The cells of the buffer a step writes.
Written == {i \in Cells : writes'[i] /= writes[i]}

\* C18, in every state: a worker that is claiming, computing, waiting for the
\* mutex or has ended does not hold it; a claiming or computing worker can
\* always take its step; and a worker waiting for the mutex can take it unless
\* another worker is in its copy.
C18_HeldOnlyInCopy ==
    \A w \in Workers :
        /\ pc[w] /= "copy" => mutex /= Some(w)
        /\ pc[w] \in {"claim", "compute"} => ENABLED Worker(w)
        /\ pc[w] = "lock" /\ ~ENABLED Worker(w) =>
              \E w2 \in Workers \ {w} : pc[w2] = "copy" /\ mutex = Some(w2)

\* C18, in every step: the mutex is taken only by the step from waiting to
\* copying, and the next step of its holder copies the one row it has
\* computed and releases the mutex.
C18_OneCopyPerLock ==
    /\ mutex' /= mutex /\ mutex' /= None =>
          \E w \in Workers :
              /\ mutex = None
              /\ mutex' = Some(w)
              /\ pc[w] = "lock"
              /\ pc'[w] = "copy"
    /\ \A w \in Workers :
          mutex = Some(w) /\ pc'[w] /= pc[w] =>
              /\ mutex' = None
              /\ pc'[w] = "claim"
              /\ Written = idx_start(y[w], width) + 1 .. idx_end(y[w], width)

\* C18: a worker holds the buffer mutex only while it copies one finished row:
\* never while claiming a row or computing its pixels, so that a worker waits
\* for another only during that worker's copy of one row.
C18_LockHeldOnlyForCopy ==
    []C18_HeldOnlyInCopy /\ [][C18_OneCopyPerLock]_vars

C18_Witness ==
    \E w1 \in Workers : \E w2 \in Workers : \E w3 \in Workers :
        /\ pc[w1] = "copy"
        /\ mutex = Some(w1)
        /\ pc[w2] = "lock"
        /\ pc[w3] = "compute"
        /\ width >= 2

\* The eight bytes of a u32 taken as a u64.
widened(a) == bytes(a) \o <<0, 0, 0, 0>>

\* C20: the index arithmetic of parallel_image never wraps: the buffer has
\* exactly width * height cells; the offsets of a claimed row y are exactly
\* y * width and (y + 1) * width and lie within the buffer; and a row index a
\* worker goes on with is the cursor value itself, which is below the height.
C20_NoWrap ==
    wide /= None =>
        /\ wide.len /= None =>
              widened(unwrap(wide.len)) = full_mul(wide.width, wide.height)
        /\ wide.idx /= None =>
              LET i == unwrap(wide.idx)
              IN  /\ widened(i.idx_start) = full_mul(i.y, wide.width)
                  /\ widened(i.idx_end) = full_mul(add_one(i.y), wide.width)
                  /\ ~lt(unwrap(wide.len), i.idx_end)
        /\ wide.y /= None =>
              /\ (wide.row_n - 1) \div HALF < HALF
              /\ unwrap(wide.y) = as_u32(wide.row_n - 1)
              /\ lt(unwrap(wide.y), wide.height)

====
